---- MODULE Spec2Model ----
(***************************************************************************)
(* Model of the autotls controller (src/main.rs): the two patch computers  *)
(* patch_domain and patch_tls, the reconcile handler that sends their      *)
(* patches as server-side apply writes, and the error policy that maps a   *)
(* reconcile outcome to the next requeue delay.                            *)
(*                                                                         *)
(* Strings the code inspects (rule hosts, the domain) are sequences of     *)
(* one-character strings, so that contains(".") and format!("{host}.       *)
(* {domain}") are computed.  Strings the code only compares or             *)
(* concatenates (names, the issuer, annotation keys) are TLA+ strings.     *)
(* An Option<T> is a set with at most one element.                         *)
(***************************************************************************)
EXTENDS FiniteSets, Integers, Sequences, TLC

(* ------------------------------ bounds --------------------------------- *)

\* longest rule host drawn for the initial object
MaxHostLen == 1
\* longest value of the autotls/domain annotation drawn for the initial object
MaxDomainLen == 1
\* longest rule list drawn for the initial object
MaxRules == 2
\* the count of consecutive failed reconciles saturates here
MaxFailures == 2

(* ------------------------------ Option --------------------------------- *)

None == {}

Some(x) == {x}

IsSome(o) == o # {}

Unwrap(o) == CHOOSE x \in o : TRUE

(* ------------------------------ strings -------------------------------- *)

Chars == {"a", "."}

Dot == <<".">>

\* all strings over Chars of length at most n
Str(n) == UNION {[1..k -> Chars] : k \in 0..n}

\* str::contains with a string pattern: pat occurs in s as a substring
contains(s, pat) ==
    \E i \in 0..(Len(s) - Len(pat)) : SubSeq(s, i + 1, i + Len(pat)) = pat

\* format_host with the separator left out
format_host_nodot(host, domain) == host \o domain

\* format!("{host}.{domain}")
format_host(host, domain) == host \o Dot \o domain

\* format!("{name}-tls")
format_secret(name) == name \o "-tls"

(* --------------------------- result values ----------------------------- *)

Ok(v) == [ok |-> TRUE, val |-> v]

Err(e) == [ok |-> FALSE, err |-> e]

\* the variants of enum Error
IngressPatchFailed(cause) == [kind |-> "IngressPatchFailed", cause |-> cause]

MissingObjectKey(key) == [kind |-> "MissingObjectKey", cause |-> key]

Unexpected(msg) == [kind |-> "Unexpected", cause |-> msg]

\* Action::requeue(Duration::from_secs(secs))
requeue(secs) == [requeue_after |-> secs]

(* ------------------------------ objects -------------------------------- *)

DomainKey == "autotls/domain"

IssuerKey == "autotls/issuer"

SslRedirectKey == "ingress.kubernetes.io/ssl-redirect"

TlsAcmeKey == "kubernetes.io/tls-acme"

ClusterIssuerKey == "cert-manager.io/cluster-issuer"

DomainPatcher == "autotls-controller/domain-patcher"

TlsPatcher == "autotls-controller/tls-patcher"

\* a BTreeMap with no entries
EmptyMap == [k \in {} |-> ""]

\* BTreeMap::insert
insert(m, key, value) ==
    [k \in DOMAIN m \cup {key} |-> IF k = key THEN value ELSE m[k]]

\* ObjectMeta { name, annotations, ..ObjectMeta::default() }
ObjectMeta(name, namespace, anns) ==
    [name |-> name, namespace |-> namespace, annotations |-> anns]

\* IngressSpec { rules, tls, ..Default::default() }
IngressSpec(rules, tls) == [rules |-> rules, tls |-> tls]

\* IngressTLS { hosts, secret_name }
IngressTLS(hosts, secret_name) == [hosts |-> hosts, secret_name |-> secret_name]

\* Ingress { metadata, spec, ..Default::default() }
Ingress(metadata, spec) == [metadata |-> metadata, spec |-> spec]

\* ResourceExt::annotations: the annotation map, empty when the field is absent
annotations(obj) ==
    IF IsSome(obj.metadata.annotations)
    THEN Unwrap(obj.metadata.annotations)
    ELSE EmptyMap

(* --------------------------- patch computers --------------------------- *)

\* patch_rule without the contains(".") test: every present host is rewritten
patch_rule_any_host(ir, domain) ==
    IF IsSome(ir.host)
    THEN [rule |-> [ir EXCEPT !.host = Some(format_host(Unwrap(ir.host), domain))],
          patched |-> TRUE]
    ELSE [rule |-> ir, patched |-> FALSE]

\* the closure patch_domain maps over the rules: the rule it yields and
\* whether it set the patched flag
patch_rule(ir, domain) ==
    IF IsSome(ir.host) /\ ~contains(Unwrap(ir.host), Dot)
    THEN [rule |-> [ir EXCEPT !.host = Some(format_host(Unwrap(ir.host), domain))],
          patched |-> TRUE]
    ELSE [rule |-> ir, patched |-> FALSE]

\* the guard of patch_domain's early return: Some(r) if r.len() > 0
has_rules(spec) == IsSome(spec.rules) /\ Len(Unwrap(spec.rules)) > 0

\* the partial object patch_domain returns
domain_patch_object(generator, rules) ==
    Ingress(ObjectMeta(generator.metadata.name, None, None),
            Some(IngressSpec(rules, None)))

\* patch_domain treating an absent rule list as patch_tls does, as an error
patch_domain_strict(generator, domain) ==
    IF ~IsSome(generator.spec)
    THEN Err("spec missing from ingress")
    ELSE LET spec == Unwrap(generator.spec) IN
         IF ~IsSome(spec.rules)
         THEN Err("rules missing from spec")
         ELSE LET r == Unwrap(spec.rules)
                  mapped == [i \in 1..Len(r) |-> patch_rule(r[i], domain)]
                  rules == Some([i \in 1..Len(r) |-> mapped[i].rule])
                  patched == \E i \in 1..Len(r) : mapped[i].patched
              IN  IF ~patched
                  THEN Ok(None)
                  ELSE Ok(Some(domain_patch_object(generator, rules)))

\* patch_domain without the early return on an unset patched flag
patch_domain_always(generator, domain) ==
    IF ~IsSome(generator.spec)
    THEN Err("spec missing from ingress")
    ELSE LET spec == Unwrap(generator.spec) IN
         IF ~has_rules(spec)
         THEN Ok(None)
         ELSE LET r == Unwrap(spec.rules)
                  rules == Some([i \in 1..Len(r) |-> patch_rule(r[i], domain).rule])
              IN  Ok(Some(domain_patch_object(generator, rules)))

\* fn patch_domain
patch_domain(generator, domain) ==
    IF ~IsSome(generator.spec)
    THEN Err("spec missing from ingress")
    ELSE LET spec == Unwrap(generator.spec) IN
         IF ~has_rules(spec)
         THEN Ok(None)
         ELSE LET r == Unwrap(spec.rules)
                  mapped == [i \in 1..Len(r) |-> patch_rule(r[i], domain)]
                  rules == Some([i \in 1..Len(r) |-> mapped[i].rule])
                  patched == \E i \in 1..Len(r) : mapped[i].patched
              IN  IF ~patched
                  THEN Ok(None)
                  ELSE Ok(Some(domain_patch_object(generator, rules)))

RECURSIVE filter_map_hosts_dedup(_)
\* filter_map_hosts collecting every host once
filter_map_hosts_dedup(rules) ==
    IF rules = <<>>
    THEN <<>>
    ELSE LET rest == filter_map_hosts_dedup(Tail(rules))
             h == Head(rules).host
         IN  IF IsSome(h) /\ ~\E i \in DOMAIN rest : rest[i] = Unwrap(h)
             THEN <<Unwrap(h)>> \o rest
             ELSE rest

RECURSIVE filter_map_hosts(_)
\* rules.iter().filter_map(|r| r.host.clone()).collect()
filter_map_hosts(rules) ==
    IF rules = <<>>
    THEN <<>>
    ELSE (IF IsSome(Head(rules).host) THEN <<Unwrap(Head(rules).host)>> ELSE <<>>)
         \o filter_map_hosts(Tail(rules))

\* tls_annotations setting the cluster issuer whatever the directive is
tls_annotations_both(issuer) ==
    LET base == insert(EmptyMap, SslRedirectKey, "true") IN
    IF issuer = "auto"
    THEN insert(insert(base, TlsAcmeKey, "true"), ClusterIssuerKey, issuer)
    ELSE insert(base, ClusterIssuerKey, issuer)

\* the annotation map patch_tls builds
tls_annotations(issuer) ==
    LET base == insert(EmptyMap, SslRedirectKey, "true") IN
    IF issuer = "auto"
    THEN insert(base, TlsAcmeKey, "true")
    ELSE insert(base, ClusterIssuerKey, issuer)

\* tls_patch_object sending the observed rule list along with the TLS block
tls_patch_object_with_rules(generator, name, hosts, anns) ==
    Ingress(ObjectMeta(generator.metadata.name, None, Some(anns)),
            Some(IngressSpec(Unwrap(generator.spec).rules,
                Some(<<IngressTLS(Some(hosts), Some(format_secret(name)))>>))))

\* the partial object patch_tls returns
tls_patch_object(generator, name, hosts, anns) ==
    Ingress(ObjectMeta(generator.metadata.name, None, Some(anns)),
            Some(IngressSpec(None,
                Some(<<IngressTLS(Some(hosts), Some(format_secret(name)))>>))))

\* patch_tls taking an absent rule list for an empty one
patch_tls_lenient(generator, issuer) ==
    IF ~IsSome(generator.metadata.name)
    THEN Err("name missing from ingress metadata")
    ELSE IF ~IsSome(generator.spec)
    THEN Err("spec missing from ingress")
    ELSE LET name == Unwrap(generator.metadata.name)
             spec == Unwrap(generator.spec)
         IN  IF IsSome(spec.tls)
             THEN Ok(None)
             ELSE Ok(Some(tls_patch_object(generator, name,
                              IF IsSome(spec.rules)
                              THEN filter_map_hosts(Unwrap(spec.rules))
                              ELSE <<>>,
                              tls_annotations(issuer))))

\* patch_tls without the skip on an existing TLS block
patch_tls_noskip(generator, issuer) ==
    IF ~IsSome(generator.metadata.name)
    THEN Err("name missing from ingress metadata")
    ELSE IF ~IsSome(generator.spec)
    THEN Err("spec missing from ingress")
    ELSE LET name == Unwrap(generator.metadata.name)
             spec == Unwrap(generator.spec)
         IN  IF ~IsSome(spec.rules)
             THEN Err("rules missing from spec")
             ELSE Ok(Some(tls_patch_object(generator, name,
                              filter_map_hosts(Unwrap(spec.rules)),
                              tls_annotations(issuer))))

\* fn patch_tls
patch_tls(generator, issuer) ==
    IF ~IsSome(generator.metadata.name)
    THEN Err("name missing from ingress metadata")
    ELSE IF ~IsSome(generator.spec)
    THEN Err("spec missing from ingress")
    ELSE LET name == Unwrap(generator.metadata.name)
             spec == Unwrap(generator.spec)
         IN  IF IsSome(spec.tls)
             THEN Ok(None)
             ELSE IF ~IsSome(spec.rules)
             THEN Err("rules missing from spec")
             ELSE Ok(Some(tls_patch_object(generator, name,
                              filter_map_hosts(Unwrap(spec.rules)),
                              tls_annotations(issuer))))

(* ------------------------- the cluster's objects ----------------------- *)

\* the values the initial object is drawn from
Hosts == Str(MaxHostLen)

Domains == Str(MaxDomainLen)

Issuers == {"auto", "letsencrypt"}

Names == {"app"}

Namespaces == {"default"}

OptionOf(S) == {None} \cup {Some(x) : x \in S}

\* IngressRule: the optional host and the routing fields the controller
\* does not touch
IngressRule == [host : OptionOf(Hosts), http : {Some("web")}]

RuleLists == UNION {[1..k -> IngressRule] : k \in 0..MaxRules}

\* a TLS block set by a writer other than the controller
ManualTls == <<IngressTLS(Some(<<<<"a", ".", "a">>>>), Some("manual-tls"))>>

Specs == {IngressSpec(r, t) : r \in OptionOf(RuleLists), t \in {None, Some(ManualTls)}}

\* the annotation maps that carry any subset of the two directives
DirectiveMaps ==
    {EmptyMap}
    \cup {insert(EmptyMap, DomainKey, d) : d \in Domains}
    \cup {insert(EmptyMap, IssuerKey, i) : i \in Issuers}
    \cup {insert(insert(EmptyMap, DomainKey, d), IssuerKey, i) :
              d \in Domains, i \in Issuers}

\* every value of the Ingress type within the bounds
Ingresses ==
    {Ingress(ObjectMeta(n, ns, IF m = EmptyMap THEN None ELSE Some(m)), sp) :
        n \in OptionOf(Names), ns \in OptionOf(Namespaces),
        m \in DirectiveMaps, sp \in OptionOf(Specs)}

\* the objects the API server serves: a stored namespaced object always has
\* its name and its namespace
ServedIngresses ==
    {o \in Ingresses : IsSome(o.metadata.name) /\ IsSome(o.metadata.namespace)}

(* --------------------------- server-side apply ------------------------- *)

RulesField == "spec.rules"

TlsField == "spec.tls"

Fields == {RulesField, TlsField, SslRedirectKey, TlsAcmeKey, ClusterIssuerKey}

OtherWriter == "other"

Unowned == ""

\* the fields an applied configuration sets
patch_fields(patch) ==
    (IF IsSome(patch.spec) /\ IsSome(Unwrap(patch.spec).rules)
     THEN {RulesField} ELSE {})
    \cup (IF IsSome(patch.spec) /\ IsSome(Unwrap(patch.spec).tls)
          THEN {TlsField} ELSE {})
    \cup DOMAIN annotations(patch)

\* the value of a field in an object, None when the object does not set it
field_value(obj, f) ==
    IF f = RulesField
    THEN (IF IsSome(obj.spec) THEN Unwrap(obj.spec).rules ELSE None)
    ELSE IF f = TlsField
    THEN (IF IsSome(obj.spec) THEN Unwrap(obj.spec).tls ELSE None)
    ELSE (IF f \in DOMAIN annotations(obj) THEN Some(annotations(obj)[f]) ELSE None)

\* the fields of the patch that another manager owns with a different value
conflicts(obj, owners, patch, manager) ==
    {f \in patch_fields(patch) :
        /\ owners[f] \notin {Unowned, manager}
        /\ field_value(obj, f) # field_value(patch, f)}

\* the object after the patch is merged onto it: annotations merge by key,
\* spec.rules and spec.tls are replaced as a whole, everything else is kept
merge(obj, patch) ==
    LET old == IF IsSome(obj.spec) THEN Unwrap(obj.spec) ELSE IngressSpec(None, None)
        new == Unwrap(patch.spec)
        anns == [k \in DOMAIN annotations(obj) \cup DOMAIN annotations(patch) |->
                    IF k \in DOMAIN annotations(patch)
                    THEN annotations(patch)[k]
                    ELSE annotations(obj)[k]]
    IN  Ingress(
            ObjectMeta(obj.metadata.name, obj.metadata.namespace,
                       IF IsSome(patch.metadata.annotations)
                       THEN Some(anns)
                       ELSE obj.metadata.annotations),
            IF IsSome(patch.spec)
            THEN Some(IngressSpec(
                     IF IsSome(new.rules) THEN new.rules ELSE old.rules,
                     IF IsSome(new.tls) THEN new.tls ELSE old.tls))
            ELSE obj.spec)

\* the field managers after manager has applied the patch
take_ownership(owners, patch, manager) ==
    [f \in Fields |-> IF f \in patch_fields(patch) THEN manager ELSE owners[f]]

\* the API accepts the apply: a forced one always, an unforced one only when
\* no field of it conflicts
accepts(obj, owners, w) ==
    w.force \/ conflicts(obj, owners, w.patch, w.manager) = {}

\* the object an apply creates when none of that name exists: the fields
\* of the patch, in the namespace of the call
created(patch, namespace) ==
    Ingress(ObjectMeta(patch.metadata.name, namespace, patch.metadata.annotations),
            patch.spec)

\* the API validates a new Ingress: it must have rules (or a default backend,
\* which no patch of the controller carries)
valid_new(patch) ==
    /\ IsSome(patch.spec)
    /\ IsSome(Unwrap(patch.spec).rules)
    /\ Len(Unwrap(Unwrap(patch.spec).rules)) > 0

\* the field managers of an object the apply has created
fresh_ownership(patch, manager) ==
    [f \in Fields |-> IF f \in patch_fields(patch) THEN manager ELSE Unowned]

(* ------------------------------- state --------------------------------- *)

VARIABLES
    exists,         \* the API server holds the object (it is not deleted)
    live,           \* the object as the API server holds it (or held it last)
    managedFields,  \* the manager that owns each field of the live object
    cached,         \* the controller's watch cache holds the object
    store,          \* the object as the watch cache holds it (or held it last)
    generator,      \* the snapshot the running reconcile was handed
    pc,             \* where the reconcile is: idle, domain_await, tls_await
    pending,        \* the write in flight, if any
    writes,         \* the writes the current (or last) reconcile has sent
    result,         \* what the last reconcile returned, None while one runs
    scheduled,      \* the Action the controller scheduled after it
    failures,       \* consecutive failed reconciles, saturating at MaxFailures
    requested       \* a reconcile of the object is due: the initial listing,
                    \* or the delay of the scheduled Action has elapsed

vars == <<exists, live, managedFields, cached, store, generator, pc, pending,
          writes, result, scheduled, failures, requested>>

\* the state with the object obj in the cluster and in the cache, before
\* any reconcile
InitWith(obj) ==
    /\ exists = TRUE
    /\ live = obj
    /\ managedFields =
           [f \in Fields |-> IF IsSome(field_value(live, f)) THEN OtherWriter ELSE Unowned]
    /\ cached = TRUE
    /\ store = live
    /\ generator = live
    /\ pc = "idle"
    /\ pending = None
    /\ writes = <<>>
    /\ result = None
    /\ scheduled = None
    /\ failures = 0
    /\ requested = TRUE

Init == \E obj \in ServedIngresses : InitWith(obj)

\* the same with an object of any shape the Ingress type allows, identity
\* fields absent included
InitAnyObject == \E obj \in Ingresses : InitWith(obj)

(* ------------------------------ reconcile ------------------------------ *)

\* the reconcile returns res
Done(res) == [pc |-> "idle", send |-> None, result |-> Some(res)]

\* api.patch(name, params, &Patch::Apply(&ing)).await: the write is sent and
\* the reconcile waits at the await named by at
Send(manager, force, ing, at) ==
    [pc |-> at,
     send |-> Some([manager |-> manager, force |-> force, patch |-> ing,
                    status |-> "sent"]),
     result |-> None]

\* tls_stage sending its write with forced ownership
tls_stage_forced(g) ==
    IF IssuerKey \in DOMAIN annotations(g)
    THEN LET ing == patch_tls(g, annotations(g)[IssuerKey]) IN
         IF ~ing.ok
         THEN Done(Err(Unexpected(ing.err)))
         ELSE IF IsSome(ing.val)
         THEN Send(TlsPatcher, TRUE, Unwrap(ing.val), "tls_await")
         ELSE Done(Ok(requeue(300)))
    ELSE Done(Ok(requeue(300)))

\* the TLS pipeline and the final Ok, from after the domain pipeline on
tls_stage(g) ==
    IF IssuerKey \in DOMAIN annotations(g)
    THEN LET ing == patch_tls(g, annotations(g)[IssuerKey]) IN
         IF ~ing.ok
         THEN Done(Err(Unexpected(ing.err)))
         ELSE IF IsSome(ing.val)
         THEN Send(TlsPatcher, FALSE, Unwrap(ing.val), "tls_await")
         ELSE Done(Ok(requeue(300)))
    ELSE Done(Ok(requeue(300)))

\* domain_stage running the domain pipeline without its annotation, with
\* an empty domain
domain_stage_ungated(g) ==
    LET domain == IF DomainKey \in DOMAIN annotations(g)
                  THEN annotations(g)[DomainKey] ELSE <<>>
        ing == patch_domain(g, domain)
    IN  IF ~ing.ok
        THEN Done(Err(Unexpected(ing.err)))
        ELSE IF IsSome(ing.val)
        THEN Send(DomainPatcher, TRUE, Unwrap(ing.val), "domain_await")
        ELSE tls_stage(g)

\* the domain pipeline, falling through to the TLS pipeline
domain_stage(g) ==
    IF DomainKey \in DOMAIN annotations(g)
    THEN LET ing == patch_domain(g, annotations(g)[DomainKey]) IN
         IF ~ing.ok
         THEN Done(Err(Unexpected(ing.err)))
         ELSE IF IsSome(ing.val)
         THEN Send(DomainPatcher, TRUE, Unwrap(ing.val), "domain_await")
         ELSE tls_stage(g)
    ELSE tls_stage(g)

\* reconcile_entry without the check of metadata.namespace
reconcile_entry_no_namespace_check(g) ==
    IF ~IsSome(g.metadata.name)
    THEN Done(Err(MissingObjectKey(".metadata.name")))
    ELSE domain_stage(g)

\* reconcile from its entry to its first await or its return
reconcile_entry(g) ==
    IF ~IsSome(g.metadata.name)
    THEN Done(Err(MissingObjectKey(".metadata.name")))
    ELSE IF ~IsSome(g.metadata.namespace)
    THEN Done(Err(MissingObjectKey(".metadata.namespace")))
    ELSE domain_stage(g)

\* error_policy giving the object up: Action::await_change(), no requeue
error_policy_gives_up(error) == [await_change |-> TRUE]

\* error_policy with a delay that doubles with every consecutive failure
error_policy_backoff(error) == requeue(2 ^ failures)

\* fn error_policy: the action after a failed reconcile
error_policy(error) == requeue(1)

\* the Action the controller schedules for a reconcile result
schedule(res) == IF res.ok THEN res.val ELSE error_policy(res.err)

Min(a, b) == IF a < b THEN a ELSE b

\* the reconcile moves to step; log is the list of writes sent before it
Advance(step, log) ==
    /\ pc' = step.pc
    /\ pending' = step.send
    /\ writes' = IF IsSome(step.send)
                 THEN Append(log, Unwrap(step.send))
                 ELSE log
    /\ result' = step.result
    /\ scheduled' = IF IsSome(step.result) THEN Some(schedule(Unwrap(step.result))) ELSE None
    /\ failures' = IF ~IsSome(step.result) THEN failures
                   ELSE IF Unwrap(step.result).ok THEN 0
                   ELSE Min(failures + 1, MaxFailures)

\* the log with the status of its last write set
Settled(log, status) == [log EXCEPT ![Len(log)].status = status]

\* the controller hands the cached object to reconcile: when a reconcile is
\* due, or the watch has changed the cached object since the last one
Reconcile ==
    /\ pc = "idle"
    /\ cached
    /\ requested \/ store # generator
    /\ requested' = FALSE
    /\ generator' = store
    /\ Advance(reconcile_entry(store), <<>>)
    /\ UNCHANGED <<exists, live, managedFields, cached, store>>

\* the API server applies the write w: merged onto the object, or creating
\* it when it was deleted
Applied(w) ==
    /\ IF exists
       THEN /\ accepts(live, managedFields, w)
            /\ live' = merge(live, w.patch)
            /\ managedFields' = take_ownership(managedFields, w.patch, w.manager)
       ELSE /\ valid_new(w.patch)
            /\ live' = created(w.patch, generator.metadata.namespace)
            /\ managedFields' = fresh_ownership(w.patch, w.manager)
    /\ exists' = TRUE

\* why the API server rejects the write w, when it does
rejection(w) ==
    IF ~exists THEN "invalid"
    ELSE IF ~accepts(live, managedFields, w) THEN "conflict"
    ELSE "transport"

\* the domain write is applied (forced: conflicts are overridden) and the
\* reconcile goes on to the TLS pipeline
DomainPatchApplied ==
    /\ pc = "domain_await"
    /\ Applied(Unwrap(pending))
    /\ Advance(tls_stage(generator), Settled(writes, "applied"))
    /\ UNCHANGED <<cached, store, generator, requested>>

\* DomainPatchFailed with the error of the write dropped: the reconcile goes
\* on to the TLS pipeline
DomainPatchFailed_goes_on ==
    /\ pc = "domain_await"
    /\ Advance(tls_stage(generator), Settled(writes, "failed"))
    /\ UNCHANGED <<exists, live, managedFields, cached, store, generator, requested>>

\* the domain write fails and map_err(Error::IngressPatchFailed)? returns
DomainPatchFailed ==
    /\ pc = "domain_await"
    /\ Advance(Done(Err(IngressPatchFailed("transport"))), Settled(writes, "failed"))
    /\ UNCHANGED <<exists, live, managedFields, cached, store, generator, requested>>

\* the TLS write is applied (not forced: only when nothing conflicts)
TlsPatchApplied ==
    /\ pc = "tls_await"
    /\ Applied(Unwrap(pending))
    /\ Advance(Done(Ok(requeue(300))), Settled(writes, "applied"))
    /\ UNCHANGED <<cached, store, generator, requested>>

\* TlsPatchFailed with the error of the write swallowed: the reconcile
\* returns Ok
TlsPatchFailed_swallowed ==
    /\ pc = "tls_await"
    /\ Advance(Done(Ok(requeue(300))), Settled(writes, "failed"))
    /\ UNCHANGED <<exists, live, managedFields, cached, store, generator, requested>>

\* the TLS write fails: a transport failure, a conflict the API rejects, or
\* an object that is gone and that the patch alone cannot make
TlsPatchFailed ==
    /\ pc = "tls_await"
    /\ Advance(Done(Err(IngressPatchFailed(rejection(Unwrap(pending))))),
               Settled(writes, "failed"))
    /\ UNCHANGED <<exists, live, managedFields, cached, store, generator, requested>>

\* the watch delivers the live object, or its deletion, to the controller's
\* cache
WatchEvent ==
    /\ IF exists
       THEN (~cached \/ store # live) /\ cached' = TRUE /\ store' = live
       ELSE cached /\ cached' = FALSE /\ store' = store
    /\ UNCHANGED <<exists, live, managedFields, generator, pc, pending, writes,
                   result, scheduled, failures, requested>>

\* the delay of the scheduled Action elapses and the reconcile is due again
TimerFires ==
    /\ pc = "idle"
    /\ ~requested
    /\ IsSome(scheduled)
    /\ "requeue_after" \in DOMAIN Unwrap(scheduled)
    /\ requested' = TRUE
    /\ UNCHANGED <<exists, live, managedFields, cached, store, generator, pc,
                   pending, writes, result, scheduled, failures>>

\* another writer configures TLS on an object that has none
OtherWriterSetsTls ==
    /\ exists
    /\ IsSome(live.spec)
    /\ ~IsSome(Unwrap(live.spec).tls)
    /\ live' = [live EXCEPT !.spec = Some([Unwrap(live.spec) EXCEPT !.tls = Some(ManualTls)])]
    /\ managedFields' = [managedFields EXCEPT ![TlsField] = OtherWriter]
    /\ UNCHANGED <<exists, cached, store, generator, pc, pending, writes, result,
                   scheduled, failures, requested>>

\* the orchestration layer deletes the object
OrchestratorDeletes ==
    /\ exists
    /\ exists' = FALSE
    /\ UNCHANGED <<live, managedFields, cached, store, generator, pc, pending,
                   writes, result, scheduled, failures, requested>>

Next ==
    \/ Reconcile
    \/ DomainPatchApplied
    \/ DomainPatchFailed
    \/ TlsPatchApplied
    \/ TlsPatchFailed
    \/ WatchEvent
    \/ TimerFires
    \/ OtherWriterSetsTls

Spec == Init /\ [][Next]_vars

\* the controller handed objects of any shape
SpecAnyObject == InitAnyObject /\ [][Next]_vars

\* the controller beside an orchestration layer that deletes objects
NextWithDeletion == Next \/ OrchestratorDeletes

SpecWithDeletion == Init /\ [][NextWithDeletion]_vars

\* the scheduling the runtime gives: an elapsed delay is noticed, a due
\* reconcile is run, and a write that was sent gets its response
Fairness ==
    /\ WF_vars(TimerFires)
    /\ WF_vars(Reconcile)
    /\ WF_vars(DomainPatchApplied \/ DomainPatchFailed)
    /\ WF_vars(TlsPatchApplied \/ TlsPatchFailed)

FairSpec == Spec /\ Fairness

FairSpecAnyObject == SpecAnyObject /\ Fairness

(* ------------------------- notions the claims use ---------------------- *)

\* the string has a '.' among its characters
HasDot(h) == \E i \in DOMAIN h : h[i] = "."

\* the host of a rule is present and has no '.'
IsBare(rule) == IsSome(rule.host) /\ ~HasDot(Unwrap(rule.host))

\* the rule list of an object, empty when it has no spec or no rule list
RulesOf(obj) ==
    IF IsSome(obj.spec) /\ IsSome(Unwrap(obj.spec).rules)
    THEN Unwrap(Unwrap(obj.spec).rules)
    ELSE <<>>

\* the object has a TLS block
HasTls(obj) == IsSome(obj.spec) /\ IsSome(Unwrap(obj.spec).tls)

\* the hosts of the rules that have one, in rule order: the k-th entry is
\* the host of the k-th rule that has a host
PresentHosts(rules) ==
    LET idx == {i \in DOMAIN rules : IsSome(rules[i].host)}
        nth(k) == CHOOSE i \in idx : Cardinality({j \in idx : j <= i}) = k
    IN  [k \in 1..Cardinality(idx) |-> Unwrap(rules[nth(k)].host)]

\* the hosts of the first TLS block of an object
TlsHosts(obj) == Unwrap(Unwrap(Unwrap(obj.spec).tls)[1].hosts)

\* the writes of the current reconcile sent under a manager
WritesBy(manager) == {i \in DOMAIN writes : writes[i].manager = manager}

\* the reconcile has returned
Finished == pc = "idle" /\ IsSome(result)

\* the reconcile has returned Ok
Succeeded == Finished /\ Unwrap(result).ok

\* the running reconcile has a domain / TLS write in flight
DomainPatchPending == pc = "domain_await"

TlsPatchPending == pc = "tls_await"

PendingPatch == Unwrap(pending).patch

(* -------------------------------- C1 ----------------------------------- *)

\* the reconcile sent a domain write and a TLS write and both were applied
BothWritesApplied ==
    /\ Finished
    /\ Len(writes) = 2
    /\ writes[1].manager = DomainPatcher /\ writes[1].status = "applied"
    /\ writes[2].manager = TlsPatcher /\ writes[2].status = "applied"

\* C1: after a reconcile in which both the domain write and the TLS write
\* were applied, the hosts of the live object's TLS block are the hosts of its
\* rules as they stand after the domain write.
C1_TlsCoversRuleHosts ==
    BothWritesApplied => TlsHosts(live) = PresentHosts(RulesOf(live))

(* -------------------------------- C2 ----------------------------------- *)

\* C2: a domain patch has the rule list of the observed object, same length
\* and order, with every bare host H replaced by H.D and every other rule
\* (dotted host, or no host) unchanged.
C2_DomainPatchRewritesBareHosts ==
    DomainPatchPending =>
        LET D == annotations(generator)[DomainKey]
            old == RulesOf(generator)
            new == RulesOf(PendingPatch)
        IN  /\ Len(new) = Len(old)
            /\ \A i \in DOMAIN old :
                   IF IsBare(old[i])
                   THEN /\ new[i].host = Some(Unwrap(old[i].host) \o <<".">> \o D)
                        /\ new[i].http = old[i].http
                   ELSE new[i] = old[i]

\* a domain patch of two rules where one is rewritten and one, already
\* dotted, is kept
C2_Witness ==
    /\ DomainPatchPending
    /\ Len(RulesOf(generator)) = 2
    /\ IsBare(RulesOf(generator)[1])
    /\ IsSome(RulesOf(generator)[2].host)
    /\ ~IsBare(RulesOf(generator)[2])
    /\ RulesOf(PendingPatch)[2] = RulesOf(generator)[2]

(* -------------------------------- C3 ----------------------------------- *)

\* C3: patch_domain applied to the object with its own patch merged returns
\* "no patch", for every domain (the empty one and dotless ones included).
C3_DomainPatchIdempotent ==
    DomainPatchPending =>
        patch_domain(merge(generator, PendingPatch),
                     annotations(generator)[DomainKey]) = Ok(None)

\* a domain patch computed for the empty domain
C3_Witness ==
    /\ DomainPatchPending
    /\ annotations(generator)[DomainKey] = <<>>
    /\ \E i \in DOMAIN RulesOf(generator) : IsBare(RulesOf(generator)[i])

(* -------------------------------- C4 ----------------------------------- *)

IssuerValues == Issuers \cup {"", "Auto"}

\* C4: when the observed object carries a TLS block, patch_tls returns
\* Ok(None) for every issuer value and the reconcile sends no tls-patcher
\* write.
C4_TlsPresentNoPatch ==
    HasTls(generator) =>
        /\ \A i \in IssuerValues : patch_tls(generator, i) = Ok(None)
        /\ WritesBy(TlsPatcher) = {}

\* a reconcile of an object with a TLS block and the issuer directive returned
C4_Witness ==
    /\ Succeeded
    /\ HasTls(generator)
    /\ IssuerKey \in DOMAIN annotations(generator)

(* -------------------------------- C5 ----------------------------------- *)

\* the pipelines have nothing to change on the object: no directive, or the
\* directive's work is done
NothingToChange(obj) ==
    /\ DomainKey \in DOMAIN annotations(obj)
           => \A i \in DOMAIN RulesOf(obj) : ~IsBare(RulesOf(obj)[i])
    /\ IssuerKey \in DOMAIN annotations(obj) => HasTls(obj)

\* C5: every write differs from the object it was computed from: a domain
\* write changes a rule host, a TLS write adds a TLS block that was absent;
\* a reconcile with nothing to change sends no write.
C5_NoEmptyPatch ==
    /\ \A i \in DOMAIN writes :
           LET w == writes[i] IN
           /\ merge(generator, w.patch) # generator
           /\ w.manager = DomainPatcher =>
                  \E k \in DOMAIN RulesOf(generator) :
                      RulesOf(w.patch)[k].host # RulesOf(generator)[k].host
           /\ w.manager = TlsPatcher => ~HasTls(generator) /\ HasTls(w.patch)
    /\ NothingToChange(generator) => writes = <<>>

\* a reconcile that sent both writes, computed from an object that needed both
C5_Witness ==
    /\ Finished
    /\ Len(writes) = 2
    /\ ~NothingToChange(generator)

(* -------------------------------- C6 ----------------------------------- *)

\* C6: the annotation map of a TLS patch has ssl-redirect="true" and, for the
\* issuer "auto", tls-acme="true" and nothing else; for any other issuer,
\* cluster-issuer=<issuer> and nothing else.
C6_TlsAnnotationsByIssuer ==
    TlsPatchPending =>
        LET issuer == annotations(generator)[IssuerKey]
            anns == Unwrap(PendingPatch.metadata.annotations)
        IN  IF issuer = "auto"
            THEN /\ DOMAIN anns = {SslRedirectKey, TlsAcmeKey}
                 /\ anns[SslRedirectKey] = "true"
                 /\ anns[TlsAcmeKey] = "true"
            ELSE /\ DOMAIN anns = {SslRedirectKey, ClusterIssuerKey}
                 /\ anns[SslRedirectKey] = "true"
                 /\ anns[ClusterIssuerKey] = issuer

\* a TLS patch computed for the issuer "auto"
C6_Witness ==
    /\ TlsPatchPending
    /\ annotations(generator)[IssuerKey] = "auto"
    /\ TlsAcmeKey \in DOMAIN annotations(PendingPatch)

(* -------------------------------- C7 ----------------------------------- *)

\* C7: a TLS patch carries exactly one TLS block, with the secret name
\* "<object-name>-tls" and the hosts of the rules that have a host, in rule
\* order and with duplicates (the objects of the model are named "app").
C7_TlsBlockHostsAndSecret ==
    TlsPatchPending =>
        LET tls == Unwrap(Unwrap(PendingPatch.spec).tls) IN
        /\ Len(tls) = 1
        /\ generator.metadata.name = Some("app")
        /\ tls[1].secret_name = Some("app-tls")
        /\ tls[1].hosts = Some(PresentHosts(RulesOf(generator)))

\* a TLS patch for rules where one has no host and one repeats a host
C7_Witness ==
    /\ TlsPatchPending
    /\ \E i \in DOMAIN RulesOf(generator) : ~IsSome(RulesOf(generator)[i].host)
    /\ Len(TlsHosts(PendingPatch)) = Len(RulesOf(generator)) - 1
    /\ Len(TlsHosts(PendingPatch)) >= 1

(* -------------------------------- C8 ----------------------------------- *)

\* C8: a domain-patcher write is sent only if the observed object has the
\* autotls/domain annotation and a tls-patcher write only if it has the
\* autotls/issuer annotation; an object with neither (with or without a spec)
\* gets no write and the success requeue.
C8_PipelinesGatedByAnnotation ==
    /\ WritesBy(DomainPatcher) # {} => DomainKey \in DOMAIN annotations(generator)
    /\ WritesBy(TlsPatcher) # {} => IssuerKey \in DOMAIN annotations(generator)
    /\ (Finished /\ DOMAIN annotations(generator) \cap {DomainKey, IssuerKey} = {})
           => /\ writes = <<>>
              /\ result = Some(Ok(requeue(300)))
              /\ scheduled = Some(requeue(300))

\* a reconcile of an object with no directive, no spec, has returned
C8_Witness ==
    /\ Finished
    /\ DOMAIN annotations(generator) \cap {DomainKey, IssuerKey} = {}
    /\ ~IsSome(generator.spec)

(* -------------------------------- C9 ----------------------------------- *)

\* C9: every write is either a domain write under "domain-patcher" with
\* forced ownership or a TLS write under "tls-patcher" without it.
C9_WriterIdentityAndForce ==
    \A i \in DOMAIN writes :
        LET w == writes[i]
            sp == Unwrap(w.patch.spec)
        IN  \/ /\ IsSome(sp.rules) /\ ~IsSome(sp.tls)
               /\ w.manager = "autotls-controller/domain-patcher"
               /\ w.force
            \/ /\ IsSome(sp.tls) /\ ~IsSome(sp.rules)
               /\ w.manager = "autotls-controller/tls-patcher"
               /\ ~w.force

\* a reconcile that has sent a domain write and then a TLS write
C9_Witness ==
    /\ Len(writes) = 2
    /\ writes[1].force
    /\ ~writes[2].force

(* -------------------------------- C10 ---------------------------------- *)

\* C10: a reconcile that returns Ok schedules the next after 300s and one
\* that returns any error schedules it after 1s, however many failures came
\* before.
C10_RequeueByOutcomeOnly ==
    Finished =>
        scheduled = Some([requeue_after |-> IF Unwrap(result).ok THEN 300 ELSE 1])

\* the reconcile has failed MaxFailures times in a row
C10_Witness ==
    /\ Finished
    /\ ~Unwrap(result).ok
    /\ failures = MaxFailures
    /\ failures >= 2

(* -------------------------------- C11 ---------------------------------- *)

\* the object lacks metadata.name or metadata.namespace
LacksKey(obj) == ~IsSome(obj.metadata.name) \/ ~IsSome(obj.metadata.namespace)

\* C11: the reconcile of an object that lacks its name or its namespace
\* never reaches a pipeline: it sends no write, whatever the annotations,
\* returns MissingObjectKey, and the next reconcile is scheduled after 1s.
C11_MissingObjectKey ==
    LacksKey(generator) =>
        /\ pc = "idle"
        /\ pending = None
        /\ writes = <<>>
        /\ Finished =>
               /\ ~Unwrap(result).ok
               /\ Unwrap(result).err.kind = "MissingObjectKey"
               /\ scheduled = Some([requeue_after |-> 1])

\* a reconcile has returned for an object without a namespace that carries
\* both directives and a host to rewrite
C11_Witness ==
    /\ Finished
    /\ IsSome(generator.metadata.name)
    /\ ~IsSome(generator.metadata.namespace)
    /\ {DomainKey, IssuerKey} \subseteq DOMAIN annotations(generator)
    /\ \E i \in DOMAIN RulesOf(generator) : IsBare(RulesOf(generator)[i])
    /\ ~HasTls(generator)

(* -------------------------------- C12 ---------------------------------- *)

\* the object has a spec whose rule list is absent or empty, or has no rule
\* with a bare host
NoBareHost(obj) ==
    /\ IsSome(obj.spec)
    /\ \A i \in DOMAIN RulesOf(obj) : ~IsBare(RulesOf(obj)[i])

\* C12: when spec.rules is absent or empty, or every rule host is dotted or
\* absent, patch_domain returns Ok(None) for every domain; the reconcile of
\* such an object with only autotls/domain set sends no write and returns the
\* 300s requeue.
C12_DomainSkipIsNoError ==
    NoBareHost(generator) =>
        /\ \A d \in Domains : patch_domain(generator, d) = Ok(None)
        /\ (Finished /\ DomainKey \in DOMAIN annotations(generator)
                     /\ IssuerKey \notin DOMAIN annotations(generator))
               => /\ writes = <<>>
                  /\ result = Some(Ok([requeue_after |-> 300]))
                  /\ scheduled = Some([requeue_after |-> 300])

\* a reconcile has returned for an object with autotls/domain only and no
\* rule list
C12_Witness ==
    /\ Finished
    /\ IsSome(generator.spec)
    /\ ~IsSome(Unwrap(generator.spec).rules)
    /\ DomainKey \in DOMAIN annotations(generator)
    /\ IssuerKey \notin DOMAIN annotations(generator)

(* -------------------------------- C13 ---------------------------------- *)

\* the domain computation of the reconcile has failed
DomainComputationFailed ==
    /\ Finished
    /\ DomainKey \in DOMAIN annotations(generator)
    /\ ~IsSome(generator.spec)

\* C13: one reconcile sends at most two writes, a domain write only first
\* and a TLS write only last; a failed write is the last thing the reconcile
\* does, so no TLS write follows a failed domain write, and none is sent when
\* the domain computation fails.
C13_TwoWritesInOrderShortCircuit ==
    /\ Len(writes) <= 2
    /\ \A i \in DOMAIN writes : \A j \in DOMAIN writes :
           i < j => /\ writes[i].manager = DomainPatcher
                    /\ writes[j].manager = TlsPatcher
                    /\ writes[i].status = "applied"
    /\ \A i \in DOMAIN writes :
           writes[i].status = "failed" =>
               /\ i = Len(writes)
               /\ Finished
               /\ ~Unwrap(result).ok
    /\ DomainComputationFailed => writes = <<>> /\ ~Unwrap(result).ok

\* a reconcile has returned after its domain write failed, for an object
\* whose TLS pipeline had a patch to send
C13_Witness ==
    /\ Finished
    /\ Len(writes) = 1
    /\ writes[1].manager = DomainPatcher
    /\ writes[1].status = "failed"
    /\ IssuerKey \in DOMAIN annotations(generator)
    /\ ~HasTls(generator)

(* -------------------------------- C14 ---------------------------------- *)

\* a reconcile has returned Ok and the cache holds the object as it is now
Quiescent == Succeeded /\ store = live

\* no reconcile is waiting on a write, and the last one returned Ok(300s)
AtRest ==
    /\ pc = "idle"
    /\ pending = None
    /\ result = Some(Ok([requeue_after |-> 300]))

\* C14: once a reconcile has returned Ok and the cache has been refreshed,
\* no later reconcile sends a write (none ever waits on one) and each returns
\* the 300s requeue.
C14_Convergence == [](Quiescent => []AtRest)

\* the cache was refreshed after a reconcile that applied both writes, and a
\* later reconcile of the refreshed object has returned without a write
C14_Witness ==
    /\ Quiescent
    /\ generator = live
    /\ writes = <<>>
    /\ managedFields[RulesField] = DomainPatcher
    /\ managedFields[TlsField] = TlsPatcher

(* -------------------------------- C15 ---------------------------------- *)

\* the live object has a TLS block that another writer set
ForeignTls ==
    /\ exists
    /\ HasTls(live)
    /\ managedFields[TlsField] = OtherWriter

\* C15: no step changes a TLS block that another writer has set on the live
\* object, also when it was set after the reconcile took its snapshot and
\* before its TLS write arrived.
C15_ForeignTlsNotClobbered ==
    [][ForeignTls => field_value(live', TlsField) = field_value(live, TlsField)]_vars

\* the TLS write of a reconcile whose snapshot had no TLS block was rejected
\* because another writer had set one meanwhile, and that block is in place
C15_Witness ==
    /\ Finished
    /\ ~HasTls(generator)
    /\ WritesBy(TlsPatcher) # {}
    /\ writes[Len(writes)].status = "failed"
    /\ Unwrap(result).err = IngressPatchFailed("conflict")
    /\ field_value(live, TlsField) = Some(ManualTls)

(* -------------------------------- C16 ---------------------------------- *)

\* the object has no spec, or a spec with neither a TLS block nor a rule list
LacksSpecOrRules(obj) ==
    \/ ~IsSome(obj.spec)
    \/ ~IsSome(Unwrap(obj.spec).tls) /\ ~IsSome(Unwrap(obj.spec).rules)

\* the object has a spec with no TLS block and a rule list that is empty
HasEmptyRules(obj) ==
    /\ IsSome(obj.spec)
    /\ ~IsSome(Unwrap(obj.spec).tls)
    /\ Unwrap(obj.spec).rules = Some(<<>>)

\* the reconcile of the snapshot has got past its entry
Started == pc # "idle" \/ Finished

\* C16: with autotls/issuer present, an object without spec, or without TLS
\* block and rule list, makes the reconcile fail (no TLS write, 1s requeue);
\* one with an empty rule list gets a TLS patch with no hosts; for the
\* domain pipeline an absent rule list is a skip, Ok(None).
C16_TlsStructuralErrors ==
    IssuerKey \in DOMAIN annotations(generator) =>
        /\ LacksSpecOrRules(generator) =>
               /\ ~patch_tls(generator, annotations(generator)[IssuerKey]).ok
               /\ WritesBy(TlsPatcher) = {}
               /\ Finished => /\ ~Unwrap(result).ok
                              /\ scheduled = Some([requeue_after |-> 1])
        /\ (HasEmptyRules(generator) /\ Started) =>
               /\ Len(writes) = 1
               /\ writes[1].manager = TlsPatcher
               /\ TlsHosts(writes[1].patch) = <<>>
        /\ (IsSome(generator.spec) /\ ~IsSome(Unwrap(generator.spec).rules)) =>
               \A d \in Domains : patch_domain(generator, d) = Ok(None)

\* a reconcile has failed in the TLS pipeline on a spec without rule list,
\* after the domain pipeline skipped the same object
C16_Witness ==
    /\ Finished
    /\ {DomainKey, IssuerKey} \subseteq DOMAIN annotations(generator)
    /\ IsSome(generator.spec)
    /\ ~HasTls(generator)
    /\ ~IsSome(Unwrap(generator.spec).rules)
    /\ result = Some(Err(Unexpected("rules missing from spec")))

(* -------------------------------- C17 ---------------------------------- *)

\* the controller has scheduled a further reconcile after a delay
RequeueScheduled ==
    /\ IsSome(scheduled)
    /\ DOMAIN Unwrap(scheduled) = {"requeue_after"}

\* C17: every reconcile that returns, with Ok or with any error, leaves one
\* further reconcile scheduled, and under fair scheduling the object is
\* reconciled again and again, for ever.
C17_ReconciledForever ==
    /\ [](Finished => RequeueScheduled)
    /\ []<><<Reconcile>>_vars

\* an object whose reconcile has failed MaxFailures times in a row with
\* MissingObjectKey is due for its next reconcile
C17_Witness ==
    /\ Finished
    /\ requested
    /\ failures = MaxFailures
    /\ Unwrap(result).err.kind = "MissingObjectKey"

(* -------------------------------- C18 ---------------------------------- *)

\* the annotation keys a TLS patch may set
TlsAnnotationKeys == {SslRedirectKey, TlsAcmeKey, ClusterIssuerKey}

\* a domain patch sets metadata.name and spec.rules and nothing else
DomainPatchFrame(patch) ==
    /\ IsSome(patch.metadata.name)
    /\ ~IsSome(patch.metadata.namespace)
    /\ ~IsSome(patch.metadata.annotations)
    /\ patch_fields(patch) = {RulesField}

\* a TLS patch sets metadata.name, annotations and spec.tls and nothing else
TlsPatchFrame(patch) ==
    /\ IsSome(patch.metadata.name)
    /\ ~IsSome(patch.metadata.namespace)
    /\ IsSome(patch.metadata.annotations)
    /\ TlsField \in patch_fields(patch)
    /\ patch_fields(patch) \subseteq {TlsField} \cup TlsAnnotationKeys

\* the step in which the API answers the domain write / the TLS write
DomainWriteStep == pc = "domain_await" /\ pc' # "domain_await"

TlsWriteStep == pc = "tls_await" /\ pc' # "tls_await"

\* C18: a domain patch sets only metadata.name and spec.rules, a TLS patch
\* only metadata.name, annotations and the TLS block; the domain write leaves
\* the live object's TLS block and annotations as they were, the TLS write
\* leaves its rules (and the annotations it does not set) as they were.
C18_WritesKeepTheirFrame ==
    /\ [](\A i \in DOMAIN writes :
             IF writes[i].manager = DomainPatcher
             THEN DomainPatchFrame(writes[i].patch)
             ELSE TlsPatchFrame(writes[i].patch))
    /\ [][DomainWriteStep =>
             /\ field_value(live', TlsField) = field_value(live, TlsField)
             /\ live'.metadata = live.metadata]_vars
    /\ [][TlsWriteStep =>
             /\ field_value(live', RulesField) = field_value(live, RulesField)
             /\ live'.metadata.name = live.metadata.name
             /\ live'.metadata.namespace = live.metadata.namespace
             /\ \A k \in DOMAIN annotations(live) \ TlsAnnotationKeys :
                    /\ k \in DOMAIN annotations(live')
                    /\ annotations(live')[k] = annotations(live)[k]]_vars

\* both writes of a reconcile were applied to an object of two rules
C18_Witness ==
    /\ BothWritesApplied
    /\ Len(RulesOf(live)) = 2
    /\ RulesOf(live) = RulesOf(writes[1].patch)
    /\ DomainKey \in DOMAIN annotations(live)

(* -------------------------------- C19 ---------------------------------- *)

\* C19: the controller never creates or deletes an ingress object: a step in
\* which the API answers a controller write leaves the existence of the
\* object as it was, and changes the object only when it exists, also when
\* the orchestration layer deletes the object between the reconciler's
\* observation and its write.
C19_OnlyOrchestratorChangesExistence ==
    [][(DomainWriteStep \/ TlsWriteStep) =>
          /\ exists' = exists
          /\ (live' # live => exists)]_vars

(* -------------------------------- C20 ---------------------------------- *)

\* the reconcile returned after its domain write was applied and its TLS
\* write failed
DomainAppliedTlsFailed ==
    /\ Finished
    /\ Len(writes) = 2
    /\ writes[1].manager = DomainPatcher /\ writes[1].status = "applied"
    /\ writes[2].manager = TlsPatcher /\ writes[2].status = "failed"

\* the running or last reconcile observed the object as a domain write of an
\* earlier reconcile left it
ObservedQualified ==
    /\ managedFields[RulesField] = DomainPatcher
    /\ RulesOf(generator) = RulesOf(live)

\* C20: when the domain write is applied and the TLS write then fails, the
\* live rules stay as the domain write made them, the reconcile is reported
\* failed and requeued after 1s; a later reconcile that observes the updated
\* object sends no domain write and computes its TLS hosts from the
\* qualified hosts of the live rules.
C20_PartialProgressKept ==
    /\ DomainAppliedTlsFailed =>
          /\ ~Unwrap(result).ok
          /\ Unwrap(result).err.kind = "IngressPatchFailed"
          /\ scheduled = Some(requeue(1))
          /\ RulesOf(live) = RulesOf(writes[1].patch)
          /\ managedFields[RulesField] = DomainPatcher
    /\ ObservedQualified =>
          /\ WritesBy(DomainPatcher) = {}
          /\ patch_domain(generator, annotations(generator)[DomainKey]) = Ok(None)
          /\ TlsPatchPending =>
                 /\ TlsHosts(PendingPatch) = PresentHosts(RulesOf(live))
                 /\ \A i \in DOMAIN TlsHosts(PendingPatch) :
                        HasDot(TlsHosts(PendingPatch)[i])

\* the retry after a failed reconcile has observed the qualified rules and
\* its TLS write is in flight
C20_Witness ==
    /\ failures >= 1
    /\ TlsPatchPending
    /\ ObservedQualified
    /\ Len(TlsHosts(PendingPatch)) >= 1

====
